---- MODULE Spec2Model ----
(***************************************************************************)
(* A model of the ai-agent HTTP service: the AppController endpoints       *)
(* POST /sync, POST /chat and GET /summarize (src/src/app.controller.ts)   *)
(* and the AppService helpers they call (src/src/app.service.ts).          *)
(*                                                                         *)
(* Every handler is cut at its awaits: one action runs the handler from    *)
(* one await to the next.  The embedding API, the vector store, the chat   *)
(* model and the file system are the environment: each awaited call        *)
(* settles either way, with values drawn from small sets.                  *)
(*                                                                         *)
(* Numbers with a fraction are scaled to integers: similarity scores are   *)
(* in hundredths (0.5 is 50), temperatures in tenths (0.6 is 6).           *)
(***************************************************************************)
EXTENDS Integers, Sequences, FiniteSets, TLC

VARIABLES
    isInitialized,  \* AppController.isInitialized
    model,          \* temperature (tenths) of the client held in this.model
    \* ---- POST /sync, one request at a time
    spc,            \* where the sync handler is suspended
    file,           \* the uploaded file of the request
    tempFilePath,   \* TRUE once tempFilePath is a path (not null)
    tempExists,     \* the temporary file of this request is on disk
    docs,           \* docs.length
    totalBatches,
    i,              \* loop index
    processedCount,
    results,
    outcome,        \* what the try block ended with, held while finally runs
    sresp,          \* the response of the request
    slog,           \* external calls of the request, in order
    \* ---- POST /chat and GET /summarize, one request per slot
    pc,
    req,
    searchResults,
    usedModel,
    resp,
    calls,
    \* ---- pure functions under test
    fin,            \* input of the function
    fout            \* its result

ctlVars  == <<isInitialized, model>>
syncVars == <<spc, file, tempFilePath, tempExists, docs, totalBatches, i,
              processedCount, results, outcome, sresp, slog>>
reqVars  == <<pc, req, searchResults, usedModel, resp, calls>>
funVars  == <<fin, fout>>
vars     == <<ctlVars, syncVars, reqVars, funVars>>

----------------------------------------------------------------------------
(* Bounds of the model *)

\* most documents a CSV file parses to
MaxDocs == 101
\* most results the vector store returns to one search
MaxResults == 2

(* Program constants *)

\* app.controller.ts:102
batchSize == 50
\* app.controller.ts:162, milliseconds
pauseMs == 2000
\* app.controller.ts:49, tenths
initialTemperature == 6

Min(a, b) == IF a < b THEN a ELSE b
Max(a, b) == IF a > b THEN a ELSE b

\* Math.ceil(a / b) for a >= 0, b > 0
Ceil(a, b) == (a + b - 1) \div b

----------------------------------------------------------------------------
(* POST /sync *)

\* messages an awaited call can fail with
ErrMsgs == {"quota exceeded", "dimension mismatch"}

CsvSuffix == <<".", "c", "s", "v">>

\* String.prototype.endsWith
EndsWith(s, suffix) ==
    /\ Len(s) >= Len(suffix)
    /\ SubSeq(s, Len(s) - Len(suffix) + 1, Len(s)) = suffix

NoFile == [present |-> FALSE, mimetype |-> "", originalname |-> <<>>]

Files ==
    {NoFile} \cup
    [present : {TRUE},
     mimetype : {"text/csv", "application/pdf"},
     originalname : {<<"a", ".", "c", "s", "v">>, <<"a", ".", "p", "d", "f">>,
                     <<"c", "s", "v">>}]

\* the check of app.controller.ts:81; TRUE when the file is refused
NotCsvMut(f) == f.mimetype # "text/csv" /\ EndsWith(f.originalname, CsvSuffix)
NotCsv(f) == f.mimetype # "text/csv" /\ ~EndsWith(f.originalname, CsvSuffix)

NoResp == [status |-> 0, kind |-> "none", message |-> <<>>]

\* new BadRequestException(msg): HTTP 400
BadRequest(msg) == [status |-> 400, kind |-> "error", message |-> msg]
\* an Error that no handler catches: the framework answers HTTP 500
Uncaught(msg) == [status |-> 500, kind |-> "error", message |-> msg]

\* entries of the log of external calls: a call, its settling (with the
\* message it failed with), a timer and its firing
Call(op, batch) == [op |-> op, batch |-> batch, ms |-> 0, note |-> ""]
Resolved(op, batch) ==
    [op |-> op \o ":ok", batch |-> batch, ms |-> 0, note |-> ""]
Rejected(op, batch, msg) ==
    [op |-> op \o ":error", batch |-> batch, ms |-> 0, note |-> msg]
Timer(batch) == [op |-> "setTimeout", batch |-> batch, ms |-> pauseMs, note |-> ""]
Fired(batch) ==
    [op |-> "setTimeout:fired", batch |-> batch, ms |-> pauseMs, note |-> ""]

\* startIndex, endIndex and batch.length of loop round k (k = i, from 0)
StartIndex(k) == k * batchSize
EndIndexMut(k, n) == StartIndex(k) + batchSize
EndIndex(k, n) == Min(StartIndex(k) + batchSize, n)
BatchLength(k, n) == EndIndex(k, n) - StartIndex(k)

\* the entry pushed on success (app.controller.ts:136) or failure (:150)
SuccessEntry(k, n) ==
    [batchNumber |-> k + 1, documentsInBatch |-> BatchLength(k, n),
     documentsProcessed |-> BatchLength(k, n), startIndex |-> StartIndex(k),
     endIndex |-> EndIndex(k, n) - 1, status |-> "success", error |-> ""]
ErrorEntry(k, n, msg) ==
    [batchNumber |-> k + 1, documentsInBatch |-> BatchLength(k, n),
     documentsProcessed |-> 0, startIndex |-> StartIndex(k),
     endIndex |-> EndIndex(k, n) - 1, status |-> "error", error |-> msg]

\* processedCount after a batch settled
CountAfterMut(count, k, n, ok) == count + BatchLength(k, n)
CountAfter(count, k, n, ok) == IF ok THEN count + BatchLength(k, n) ELSE count

CountStatus(rs, st) == Cardinality({k \in 1..Len(rs) : rs[k].status = st})

\* the object returned at app.controller.ts:166
SyncResult(n, count, tb, rs) ==
    [status |-> 201, kind |-> "result", message |-> <<>>,
     totalDocuments |-> n, processedDocuments |-> count, totalBatches |-> tb,
     batchSize |-> batchSize, results |-> rs,
     summary |-> [successful |-> CountStatus(rs, "success"),
                  failed |-> CountStatus(rs, "error")]]

\* catch of app.controller.ts:179
SyncFailure(msg) == BadRequest(<<"Failed to process CSV: ", msg>>)

SyncLocalsInit ==
    /\ tempFilePath = FALSE
    /\ docs = 0
    /\ totalBatches = 0
    /\ i = 0
    /\ processedCount = 0
    /\ results = <<>>
    /\ outcome = NoResp
    /\ sresp = NoResp
    /\ slog = <<>>

\* the request is refused before the try block (lines 77-85)
SyncRefuse(f) ==
    /\ spc = "idle"
    /\ \/ ~f.present
       \/ NotCsv(f)
       \/ ~isInitialized
    /\ file' = f
    /\ tempFilePath' = FALSE
    /\ docs' = 0 /\ totalBatches' = 0 /\ i' = 0 /\ processedCount' = 0
    /\ results' = <<>> /\ outcome' = NoResp /\ slog' = <<>>
    /\ sresp' = IF ~f.present THEN BadRequest(<<"No CSV file provided">>)
                ELSE IF NotCsv(f) THEN BadRequest(<<"File must be a CSV">>)
                ELSE Uncaught(<<"AI components not initialized yet">>)
    /\ spc' = "done"
    /\ tempExists' = FALSE
    /\ UNCHANGED <<ctlVars, reqVars, funVars>>

\* lines 77-95: the checks pass, the path is made, writeFile is called
SyncAccept(f) ==
    /\ spc = "idle"
    /\ f.present /\ ~NotCsv(f) /\ isInitialized
    /\ file' = f
    /\ tempFilePath' = TRUE
    /\ docs' = 0 /\ totalBatches' = 0 /\ i' = 0 /\ processedCount' = 0
    /\ results' = <<>> /\ outcome' = NoResp /\ sresp' = NoResp
    /\ slog' = <<Call("writeFile", 0)>>
    /\ spc' = "write"
    /\ tempExists' = FALSE
    /\ UNCHANGED <<ctlVars, reqVars, funVars>>

\* if (tempFilePath) of line 183, for the outcome `out` of the try block
CleanupDueMut(path, out) == path /\ out.kind = "result"
CleanupDue(path, out) == path

\* the try block ends (return or catch) and finally runs: unlink is called
\* when there is a path (lines 179-185), else the request is over
ToFinally(out, log) ==
    /\ outcome' = out
    /\ IF CleanupDue(tempFilePath, out)
       THEN /\ slog' = Append(log, Call("unlink", 0))
            /\ spc' = "unlink"
            /\ sresp' = sresp
       ELSE /\ slog' = log
            /\ spc' = "done"
            /\ sresp' = out

WriteOk ==
    /\ spc = "write"
    /\ tempExists' = TRUE
    /\ slog' = slog \o <<Resolved("writeFile", 0), Call("load", 0)>>
    /\ spc' = "load"
    /\ UNCHANGED <<file, tempFilePath, docs, totalBatches, i, processedCount,
                   results, outcome, sresp, ctlVars, reqVars, funVars>>

\* a failed write may leave a partial file
WriteFail(msg, left) ==
    /\ spc = "write"
    /\ tempExists' = left
    /\ ToFinally(SyncFailure(msg), Append(slog, Rejected("writeFile", 0, msg)))
    /\ UNCHANGED <<file, tempFilePath, docs, totalBatches, i, processedCount,
                   results, ctlVars, reqVars, funVars>>

\* loader.load() gives n documents (lines 98-120)
LoadOk(n) ==
    /\ spc = "load"
    /\ docs' = n
    /\ totalBatches' = Ceil(n, batchSize)
    /\ IF n > 0
       THEN /\ slog' = slog \o <<Resolved("load", 0), Call("embedQuery", 0)>>
            /\ spc' = "probe"
            /\ UNCHANGED <<outcome, sresp>>
       ELSE ToFinally(SyncResult(n, 0, Ceil(n, batchSize), <<>>),
                      Append(slog, Resolved("load", 0)))
    /\ UNCHANGED <<file, tempFilePath, tempExists, i, processedCount, results,
                   ctlVars, reqVars, funVars>>

LoadFail(msg) ==
    /\ spc = "load"
    /\ ToFinally(SyncFailure(msg), Append(slog, Rejected("load", 0, msg)))
    /\ UNCHANGED <<file, tempFilePath, tempExists, docs, totalBatches, i,
                   processedCount, results, ctlVars, reqVars, funVars>>

\* the embedding probe settles; its dimension is only logged (lines 108-122)
ProbeOk ==
    /\ spc = "probe"
    /\ slog' = slog \o <<Resolved("embedQuery", 0), Call("addDocuments", 1)>>
    /\ spc' = "upsert"
    /\ UNCHANGED <<file, tempFilePath, tempExists, docs, totalBatches, i,
                   processedCount, results, outcome, sresp, ctlVars, reqVars,
                   funVars>>

ProbeFail(msg) ==
    /\ spc = "probe"
    /\ ToFinally(SyncFailure(msg), Append(slog, Rejected("embedQuery", 0, msg)))
    /\ UNCHANGED <<file, tempFilePath, tempExists, docs, totalBatches, i,
                   processedCount, results, ctlVars, reqVars, funVars>>

\* whether a pause follows round k (line 161)
PauseAfterMut(k, tb, ok) == ok /\ k < tb - 1
PauseAfter(k, tb, ok) == k < tb - 1

\* the catch of lines 148-159 takes the error of addDocuments
BatchErrorCaughtMut == FALSE
BatchErrorCaught == TRUE

\* addDocuments of round i settled (log entry `settled`): the entry is
\* pushed, then the pause starts, or the loop goes on or ends and the result
\* is returned (lines 131-178)
AfterBatch(entry, ok, settled) ==
    LET rs == Append(results, entry)
        count == CountAfter(processedCount, i, docs, ok)
        log == Append(slog, settled)
    IN  /\ results' = rs
        /\ processedCount' = count
        /\ IF PauseAfter(i, totalBatches, ok)
           THEN /\ slog' = Append(log, Timer(i + 1))
                /\ spc' = "pause"
                /\ UNCHANGED <<i, outcome, sresp>>
           ELSE /\ i' = i + 1
                /\ IF i + 1 < totalBatches
                   THEN /\ slog' = Append(log, Call("addDocuments", i + 2))
                        /\ spc' = "upsert"
                        /\ UNCHANGED <<outcome, sresp>>
                   ELSE ToFinally(SyncResult(docs, count, totalBatches, rs), log)
        /\ UNCHANGED <<file, tempFilePath, tempExists, docs, totalBatches,
                       ctlVars, reqVars, funVars>>

UpsertOk ==
    /\ spc = "upsert"
    /\ AfterBatch(SuccessEntry(i, docs), TRUE, Resolved("addDocuments", i + 1))

UpsertFail(msg) ==
    /\ spc = "upsert"
    /\ IF BatchErrorCaught
       THEN AfterBatch(ErrorEntry(i, docs, msg), FALSE,
                       Rejected("addDocuments", i + 1, msg))
       ELSE /\ ToFinally(SyncFailure(msg),
                         Append(slog, Rejected("addDocuments", i + 1, msg)))
            /\ UNCHANGED <<file, tempFilePath, tempExists, docs, totalBatches,
                           i, processedCount, results, ctlVars, reqVars,
                           funVars>>

\* the timer fires: i++, the loop test holds, the next upsert is called
PauseEnd ==
    /\ spc = "pause"
    /\ i' = i + 1
    /\ slog' = slog \o <<Fired(i + 1), Call("addDocuments", i + 2)>>
    /\ spc' = "upsert"
    /\ UNCHANGED <<file, tempFilePath, tempExists, docs, totalBatches,
                   processedCount, results, outcome, sresp, ctlVars, reqVars,
                   funVars>>

\* unlink removes the file; the request ends with what the try block gave
UnlinkOk ==
    /\ spc = "unlink"
    /\ tempExists
    /\ tempExists' = FALSE
    /\ slog' = Append(slog, Resolved("unlink", 0))
    /\ sresp' = outcome
    /\ spc' = "done"
    /\ UNCHANGED <<file, tempFilePath, docs, totalBatches, i, processedCount,
                   results, outcome, ctlVars, reqVars, funVars>>

\* unlink fails; the error is logged and dropped (lines 187-189)
UnlinkFail ==
    /\ spc = "unlink"
    /\ slog' = Append(slog, Rejected("unlink", 0, "unlink failed"))
    /\ sresp' = outcome
    /\ spc' = "done"
    /\ UNCHANGED <<file, tempFilePath, tempExists, docs, totalBatches, i,
                   processedCount, results, outcome, ctlVars, reqVars, funVars>>

\* the response is sent and the request is over
SyncClose ==
    /\ spc = "done"
    /\ spc' = "idle"
    /\ file' = NoFile
    /\ tempExists' = FALSE
    /\ tempFilePath' = FALSE
    /\ docs' = 0 /\ totalBatches' = 0 /\ i' = 0 /\ processedCount' = 0
    /\ results' = <<>> /\ outcome' = NoResp /\ sresp' = NoResp /\ slog' = <<>>
    /\ UNCHANGED <<ctlVars, reqVars, funVars>>

----------------------------------------------------------------------------
(* Summarization: the parser of the chat model's output                    *)
(*                                                                         *)
(* A text is a sequence of tokens.  "F" is the fence of three backticks,    *)
(* "j" the word json (any text that is no JSON token), " " white space; the *)
(* JSON tokens are the brackets, the comma and the digit "1".              *)

Tokens == {"{", "}", "[", "]", ",", "1", "j", " ", "F"}

\* most tokens of a model output
MaxLen == 4

\* first position from p on that holds no white space (Len(s) + 1 if none)
RECURSIVE SkipWs(_, _)
SkipWs(s, p) ==
    IF p <= Len(s) /\ s[p] = " " THEN SkipWs(s, p + 1) ELSE p

RECURSIVE LastNonWs(_, _)
LastNonWs(s, p) ==
    IF p >= 1 /\ s[p] = " " THEN LastNonWs(s, p - 1) ELSE p

\* String.prototype.trim
Trim(s) == SubSeq(s, SkipWs(s, 1), LastNonWs(s, Len(s)))

\* jsonStr.replace(/(fence)json\s*|\s*(fence)/g, ''), scanning from position p:
\* at each position the first alternative is tried, then the second
RECURSIVE StripFencesFrom(_, _)
StripFencesFrom(s, p) ==
    IF p > Len(s) THEN <<>>
    ELSE IF s[p] = "F" /\ p < Len(s) /\ s[p + 1] = "j"
         THEN StripFencesFrom(s, SkipWs(s, p + 2))
    ELSE LET q == SkipWs(s, p)
         IN  IF q <= Len(s) /\ s[q] = "F"
             THEN StripFencesFrom(s, q + 1)
             ELSE <<s[p]>> \o StripFencesFrom(s, p + 1)

StripFences(s) == StripFencesFrom(s, 1)

Positions(s, c) == {p \in 1..Len(s) : s[p] = c}
MinOf(S) == CHOOSE x \in S : \A y \in S : x <= y
MaxOf(S) == CHOOSE x \in S : \A y \in S : x >= y

\* jsonStr.replace(/^[^{]*({[\s\S]*})[^}]*$/, '$1'): the span from the first
\* "{" to the last "}" when the one precedes the other, else the text as it is
ExtractObjectMut(s) == s
ExtractObject(s) ==
    IF Positions(s, "{") # {} /\ Positions(s, "}") # {}
       /\ MinOf(Positions(s, "{")) < MaxOf(Positions(s, "}"))
    THEN SubSeq(s, MinOf(Positions(s, "{")), MaxOf(Positions(s, "}")))
    ELSE s

ParseError == [ok |-> FALSE, pos |-> 0, kind |-> "error"]
Parsed(kind, pos) == [ok |-> TRUE, pos |-> pos, kind |-> kind]

RECURSIVE SkipDigits(_, _)
SkipDigits(s, p) ==
    IF p <= Len(s) /\ s[p] = "1" THEN SkipDigits(s, p + 1) ELSE p

\* a JSON value from position p (white space skipped), and the rest of an
\* array after one of its elements
RECURSIVE ParseValue(_, _), ParseElements(_, _)
ParseValue(s, p0) ==
    LET p == SkipWs(s, p0)
    IN  IF p > Len(s) THEN ParseError
        ELSE IF s[p] = "1" THEN Parsed("number", SkipDigits(s, p))
        ELSE IF s[p] = "{"
             THEN LET q == SkipWs(s, p + 1)
                  IN  IF q <= Len(s) /\ s[q] = "}"
                      THEN Parsed("object", q + 1) ELSE ParseError
        ELSE IF s[p] = "["
             THEN LET q == SkipWs(s, p + 1)
                  IN  IF q <= Len(s) /\ s[q] = "]"
                      THEN Parsed("array", q + 1)
                      ELSE ParseElements(s, q)
        ELSE ParseError

ParseElements(s, p) ==
    LET v == ParseValue(s, p)
        q == SkipWs(s, v.pos)
    IN  IF ~v.ok \/ q > Len(s) THEN ParseError
        ELSE IF s[q] = "]" THEN Parsed("array", q + 1)
        ELSE IF s[q] = "," THEN ParseElements(s, q + 1)
        ELSE ParseError

\* JSON.parse: the kind of the value, "error" when it throws
JsonParse(s) ==
    LET v == ParseValue(s, 1)
    IN  IF v.ok /\ SkipWs(s, v.pos) > Len(s) THEN v.kind ELSE "error"

\* AIMessage.toString() of a message: "[object Object]"
ObjectToString == <<"[", "j", " ", "j", "]">>

\* output.content || output.toString()
ContentOf(raw) == IF raw = <<>> THEN ObjectToString ELSE raw

\* generateFallbackAnalysis (app.service.ts:278)
generateFallbackAnalysis(count, raw) ==
    [kind |-> "fallback", processingError |-> TRUE, count |-> count,
     rawResponse |-> ContentOf(raw)]

\* `section in parsed` throws a TypeError when parsed is no object
InThrows(kind) == kind = "number"

\* enhancedJsonParser (app.service.ts:232): the parsed value, or the fallback
\* when anything in the try block throws
enhancedJsonParser(count, raw) ==
    LET jsonStr == ExtractObject(StripFences(Trim(ContentOf(raw))))
        parsed == JsonParse(jsonStr)
    IN  IF parsed = "error" \/ InThrows(parsed)
        THEN generateFallbackAnalysis(count, raw)
        ELSE [kind |-> parsed, processingError |-> FALSE, count |-> count,
              rawResponse |-> jsonStr]

RECURSIVE SeqsUpTo(_, _)
SeqsUpTo(S, n) ==
    IF n = 0 THEN {<<>>}
    ELSE LET shorter == SeqsUpTo(S, n - 1)
         IN  shorter \cup {Append(t, c) : t \in shorter, c \in S}

ParseOutput ==
    /\ fin.fn = "enhancedJsonParser" /\ fout.kind = "none"
    /\ fout' = enhancedJsonParser(1, fin.arg)
    /\ UNCHANGED <<fin, ctlVars, syncVars, reqVars>>

----------------------------------------------------------------------------
(* Chat: the choice of the system prompt (app.service.ts:67) *)

UpperCase ==
    <<"A", "B", "C", "D", "E", "F", "G", "H", "I", "J", "K", "L", "M",
      "N", "O", "P", "Q", "R", "S", "T", "U", "V", "W", "X", "Y", "Z">>
LowerCase ==
    <<"a", "b", "c", "d", "e", "f", "g", "h", "i", "j", "k", "l", "m",
      "n", "o", "p", "q", "r", "s", "t", "u", "v", "w", "x", "y", "z">>

LowerOf(c) ==
    IF \E k \in 1..26 : UpperCase[k] = c
    THEN LowerCase[CHOOSE k \in 1..26 : UpperCase[k] = c]
    ELSE c

\* String.prototype.toLowerCase
ToLowerCase(s) == [p \in 1..Len(s) |-> LowerOf(s[p])]

\* String.prototype.includes
Includes(s, w) ==
    \E p \in 1..(Len(s) - Len(w) + 1) : SubSeq(s, p, p + Len(w) - 1) = w

IncludesAny(s, ws) == \E w \in ws : Includes(s, w)

\* the keywords of app.service.ts:71-73
MaximumWords ==
    {<<"m", "a", "x", "i", "m", "u", "m">>,
     <<"h", "i", "g", "h", "e", "s", "t">>,
     <<"l", "a", "r", "g", "e", "s", "t">>}
\* the keywords of app.service.ts:81-83
MinimumWords ==
    {<<"m", "i", "n", "i", "m", "u", "m">>,
     <<"l", "o", "w", "e", "s", "t">>,
     <<"s", "m", "a", "l", "l", "e", "s", "t">>}
\* the keywords of app.service.ts:89
SummaryWords ==
    {<<"s", "u", "m", "m", "a", "r", "y">>,
     <<"o", "v", "e", "r", "v", "i", "e", "w">>}
\* the keywords of app.service.ts:94
PatternWords ==
    {<<"p", "a", "t", "t", "e", "r", "n">>,
     <<"t", "r", "e", "n", "d">>}

\* the template returned, by the name of its rule
getSystemPromptMut(query) ==
    LET lowerQuery == ToLowerCase(query)
    IN  IF IncludesAny(lowerQuery, MinimumWords) THEN "minimum"
        ELSE IF IncludesAny(lowerQuery, MaximumWords) THEN "maximum"
        ELSE IF IncludesAny(lowerQuery, SummaryWords) THEN "summary"
        ELSE IF IncludesAny(lowerQuery, PatternWords) THEN "pattern"
        ELSE "default"
getSystemPrompt(query) ==
    LET lowerQuery == ToLowerCase(query)
    IN  IF IncludesAny(lowerQuery, MaximumWords) THEN "maximum"
        ELSE IF IncludesAny(lowerQuery, MinimumWords) THEN "minimum"
        ELSE IF IncludesAny(lowerQuery, SummaryWords) THEN "summary"
        ELSE IF IncludesAny(lowerQuery, PatternWords) THEN "pattern"
        ELSE "default"

\* most words of a query
MaxWords == 2

\* the words queries are made of: keywords in several cases, pieces of
\* keywords, and words that are no keyword
QueryWords ==
    {<<"m", "a", "x", "i", "m", "u", "m">>,
     <<"H", "i", "g", "h", "e", "s", "t">>,
     <<"L", "A", "R", "G", "E", "S", "T">>,
     <<"m", "i", "n", "i", "m", "u", "m">>,
     <<"L", "o", "w", "e", "s", "t">>,
     <<"s", "m", "a", "l", "l", "e", "s", "t">>,
     <<"s", "u", "m", "m", "a", "r", "y">>,
     <<"O", "v", "e", "r", "v", "i", "e", "w">>,
     <<"p", "a", "t", "t", "e", "r", "n">>,
     <<"T", "R", "E", "N", "D">>,
     <<"m", "a", "x", "i">>,
     <<"m", "u", "m">>,
     <<"t", "o", "t", "a", "l">>,
     <<" ">>}

RECURSIVE Queries(_)
Queries(n) ==
    IF n = 0 THEN {<<>>}
    ELSE LET shorter == Queries(n - 1)
         IN  shorter \cup {q \o w : q \in shorter, w \in QueryWords}

ChoosePrompt ==
    /\ fin.fn = "getSystemPrompt" /\ fout.kind = "none"
    /\ fout' = [kind |-> getSystemPrompt(fin.arg)]
    /\ UNCHANGED <<fin, ctlVars, syncVars, reqVars>>

----------------------------------------------------------------------------
(* POST /chat and GET /summarize *)

\* the request slots
MaxRequests == 2
Slots == 1..MaxRequests

\* app.service.ts:25 and :115, hundredths
relevanceThreshold == 50
transactionThreshold == 60
\* app.controller.ts:200 and app.service.ts:112
defaultLimit == 4
transactionLimit == 50

\* scores the vector store gives, hundredths
Scores == {49, 50, 59, 60}

Undefined == [defined |-> FALSE, value |-> 0]
Defined(v) == [defined |-> TRUE, value |-> v]

NoQuery == [defined |-> FALSE, text |-> <<>>]
ChatQueries ==
    {NoQuery,
     [defined |-> TRUE, text |-> <<" ">>],
     [defined |-> TRUE, text |-> <<"T", "r", "e", "n", "d">>]}

ChatRequests ==
    [endpoint : {"chat"},
     query : ChatQueries,
     limit : {Undefined, Defined(1)},
     temperature : {Undefined, Defined(-5), Defined(13), Defined(25)}]

SummarizeRequest ==
    [endpoint |-> "summarize", query |-> NoQuery, limit |-> Undefined,
     temperature |-> Undefined]

NoRequest ==
    [endpoint |-> "none", query |-> NoQuery, limit |-> Undefined,
     temperature |-> Undefined]

\* !query?.trim()
BlankMut(q) == ~q.defined
Blank(q) == ~q.defined \/ Trim(q.text) = <<>>

\* Math.max(0, Math.min(2, temperature)), tenths
Clamp(t) == Max(0, Min(20, t))

\* const { limit = 4 } = request
LimitOf(rq) == IF rq.limit.defined THEN rq.limit.value ELSE defaultLimit

\* results.filter(([, score]) => score >= threshold)
FilterMut(scores, threshold) == scores
Filter(scores, threshold) == SelectSeq(scores, LAMBDA x : x >= threshold)

\* what the vector store may answer to a search for k neighbours
Answers(k, most) == SeqsUpTo(Scores, Min(k, most))

\* outputs of the chat model to the analysis prompt
ModelOutputs ==
    {<<"{", "}">>, <<"j", "{", "}">>, <<"[", "1", "]">>, <<"1">>, <<>>}

NoInsights ==
    [kind |-> "none", processingError |-> FALSE, count |-> 0,
     rawResponse |-> <<>>]

Response(status, kind, message, found, scores, insights) ==
    [status |-> status, kind |-> kind, message |-> message,
     resultsFound |-> found, topScores |-> scores, insights |-> insights]

NoResponse == Response(0, "none", <<>>, 0, <<>>, NoInsights)

\* catch of app.controller.ts:245
ChatFailureMut(msg) ==
    Response(400, "error", <<"Chat processing failed: ", "Internal error">>, 0,
             <<>>, NoInsights)
ChatFailure(msg) ==
    Response(400, "error", <<"Chat processing failed: ", msg>>, 0, <<>>,
             NoInsights)
\* app.controller.ts:221
ChatNoResults == Response(201, "noresults", <<>>, 0, <<>>, NoInsights)
\* app.controller.ts:235
ChatReply(matches) ==
    Response(201, "reply", <<>>, Len(matches), matches, NoInsights)
\* ensureInitialized throws outside the try block of summarize (line 253)
SummarizeUncaught(msg) == Response(500, "error", <<msg>>, 0, <<>>, NoInsights)
\* app.controller.ts:262
SummarizeEmpty == Response(200, "empty", <<>>, 0, <<>>, NoInsights)
\* app.controller.ts:275
SummarizeReply(matches, insights) ==
    Response(200, "summary", <<>>, Len(matches), <<>>, insights)
\* catch of app.controller.ts:282
SummarizeFailure(msg) ==
    Response(200, "failure", <<"Failed to generate financial summary", msg>>,
             0, <<>>, NoInsights)

\* entries of the log of a request: the calls made, what the search
\* answered and the message a call failed with
Invoke(op, k, scores, temperature, note) ==
    [op |-> op, limit |-> k, scores |-> scores, temperature |-> temperature,
     note |-> note]
EmbedCall == Invoke("embedQuery", 0, <<>>, 0, "")
SearchCall(k) == Invoke("similaritySearch", k, <<>>, 0, "")
SearchAnswer(scores) == Invoke("similaritySearch:ok", 0, scores, 0, "")
\* the model is invoked with the matches, by the client of the given
\* temperature, under the named system prompt
ModelCall(scores, temperature, prompt) ==
    Invoke("model", 0, scores, temperature, prompt)
Failed(msg) == Invoke("error", 0, <<>>, 0, msg)

Finish(r, response) ==
    /\ resp' = [resp EXCEPT ![r] = response]
    /\ pc' = [pc EXCEPT ![r] = "done"]

\* ---- chat

\* the request fails before any call (lines 199-204)
ChatRefuse(r, rq) ==
    /\ pc[r] = "idle"
    /\ ~isInitialized \/ Blank(rq.query)
    /\ req' = [req EXCEPT ![r] = rq]
    /\ Finish(r, IF ~isInitialized
                 THEN ChatFailure("AI components not initialized yet")
                 ELSE ChatFailure("Query is required"))
    /\ UNCHANGED <<searchResults, usedModel, calls, ctlVars, syncVars, funVars>>

\* this.model after line 206
ModelAfter(current, rq) ==
    IF rq.temperature.defined THEN Clamp(rq.temperature.value) ELSE current

\* lines 199-213: the client is replaced when a temperature is given, then
\* performSimilaritySearch starts with embedQuery
ChatAccept(r, rq) ==
    /\ pc[r] = "idle"
    /\ isInitialized /\ ~Blank(rq.query)
    /\ req' = [req EXCEPT ![r] = rq]
    /\ model' = ModelAfter(model, rq)
    /\ calls' = [calls EXCEPT ![r] = <<EmbedCall>>]
    /\ pc' = [pc EXCEPT ![r] = "embed"]
    /\ UNCHANGED <<isInitialized, searchResults, usedModel, resp, syncVars,
                   funVars>>

ChatEmbedOk(r) ==
    /\ pc[r] = "embed" /\ req[r].endpoint = "chat"
    /\ calls' = [calls EXCEPT ![r] = Append(@, SearchCall(LimitOf(req[r])))]
    /\ pc' = [pc EXCEPT ![r] = "search"]
    /\ UNCHANGED <<req, searchResults, usedModel, resp, ctlVars, syncVars,
                   funVars>>

\* embedQuery, the search or the model rejects: the catch of line 245
ChatFail(r, msg) ==
    /\ pc[r] \in {"embed", "search", "generate"} /\ req[r].endpoint = "chat"
    /\ Finish(r, ChatFailure(msg))
    /\ calls' = [calls EXCEPT ![r] = Append(@, Failed(msg))]
    /\ UNCHANGED <<req, searchResults, usedModel, ctlVars, syncVars, funVars>>

\* the search answers: the matches are filtered; with none left the request
\* ends, else generateResponse invokes this.model (lines 213-233)
ChatSearchOk(r, scores) ==
    LET matches == Filter(scores, relevanceThreshold)
    IN  /\ pc[r] = "search" /\ req[r].endpoint = "chat"
        /\ searchResults' = [searchResults EXCEPT ![r] = matches]
        /\ IF Len(matches) = 0
           THEN /\ Finish(r, ChatNoResults)
                /\ calls' = [calls EXCEPT ![r] = Append(@, SearchAnswer(scores))]
                /\ UNCHANGED usedModel
           ELSE /\ usedModel' = [usedModel EXCEPT ![r] = model]
                /\ calls' = [calls EXCEPT ![r] =
                      @ \o <<SearchAnswer(scores),
                             ModelCall(matches, model,
                                       getSystemPrompt(req[r].query.text))>>]
                /\ pc' = [pc EXCEPT ![r] = "generate"]
                /\ resp' = resp
        /\ UNCHANGED <<req, ctlVars, syncVars, funVars>>

ChatModelOk(r) ==
    /\ pc[r] = "generate" /\ req[r].endpoint = "chat"
    /\ Finish(r, ChatReply(searchResults[r]))
    /\ UNCHANGED <<req, searchResults, usedModel, calls, ctlVars, syncVars,
                   funVars>>

\* ---- summarize

SummarizeRefuse(r) ==
    /\ pc[r] = "idle"
    /\ ~isInitialized
    /\ req' = [req EXCEPT ![r] = SummarizeRequest]
    /\ Finish(r, SummarizeUncaught("AI components not initialized yet"))
    /\ UNCHANGED <<searchResults, usedModel, calls, ctlVars, syncVars, funVars>>

\* lines 253-256: getTransactionData starts with embedQuery
SummarizeAccept(r) ==
    /\ pc[r] = "idle"
    /\ isInitialized
    /\ req' = [req EXCEPT ![r] = SummarizeRequest]
    /\ calls' = [calls EXCEPT ![r] = <<EmbedCall>>]
    /\ pc' = [pc EXCEPT ![r] = "embed"]
    /\ UNCHANGED <<searchResults, usedModel, resp, ctlVars, syncVars, funVars>>

SummarizeEmbedOk(r) ==
    /\ pc[r] = "embed" /\ req[r].endpoint = "summarize"
    /\ calls' = [calls EXCEPT ![r] = Append(@, SearchCall(transactionLimit))]
    /\ pc' = [pc EXCEPT ![r] = "search"]
    /\ UNCHANGED <<req, searchResults, usedModel, resp, ctlVars, syncVars,
                   funVars>>

\* embedQuery, the search or the model rejects: the catch of line 282
SummarizeFail(r, msg) ==
    /\ pc[r] \in {"embed", "search", "generate"}
    /\ req[r].endpoint = "summarize"
    /\ Finish(r, SummarizeFailure(msg))
    /\ calls' = [calls EXCEPT ![r] = Append(@, Failed(msg))]
    /\ UNCHANGED <<req, searchResults, usedModel, ctlVars, syncVars, funVars>>

\* lines 256-273
SummarizeSearchOk(r, scores) ==
    LET transactionData == Filter(scores, transactionThreshold)
    IN  /\ pc[r] = "search" /\ req[r].endpoint = "summarize"
        /\ searchResults' = [searchResults EXCEPT ![r] = transactionData]
        /\ IF Len(transactionData) = 0
           THEN /\ Finish(r, SummarizeEmpty)
                /\ calls' = [calls EXCEPT ![r] = Append(@, SearchAnswer(scores))]
                /\ UNCHANGED usedModel
           ELSE /\ usedModel' = [usedModel EXCEPT ![r] = model]
                /\ calls' = [calls EXCEPT ![r] =
                      @ \o <<SearchAnswer(scores),
                             ModelCall(transactionData, model, "analysis")>>]
                /\ pc' = [pc EXCEPT ![r] = "generate"]
                /\ resp' = resp
        /\ UNCHANGED <<req, ctlVars, syncVars, funVars>>

\* the model answers and enhancedJsonParser ends the chain (lines 270-281)
SummarizeModelOk(r, raw) ==
    /\ pc[r] = "generate" /\ req[r].endpoint = "summarize"
    /\ Finish(r, SummarizeReply(searchResults[r],
                                enhancedJsonParser(Len(searchResults[r]), raw)))
    /\ UNCHANGED <<req, searchResults, usedModel, calls, ctlVars, syncVars,
                   funVars>>

\* the response is sent and the request is over
Close(r) ==
    /\ pc[r] = "done"
    /\ pc' = [pc EXCEPT ![r] = "idle"]
    /\ req' = [req EXCEPT ![r] = NoRequest]
    /\ searchResults' = [searchResults EXCEPT ![r] = <<>>]
    /\ usedModel' = [usedModel EXCEPT ![r] = -1]
    /\ resp' = [resp EXCEPT ![r] = NoResponse]
    /\ calls' = [calls EXCEPT ![r] = <<>>]
    /\ UNCHANGED <<ctlVars, syncVars, funVars>>

----------------------------------------------------------------------------
(* The controller *)

\* onModuleInit (app.controller.ts:39)
OnModuleInit ==
    /\ ~isInitialized
    /\ isInitialized' = TRUE
    /\ model' = initialTemperature
    /\ UNCHANGED <<syncVars, reqVars, funVars>>

NoInput == [fn |-> "none", arg |-> <<>>]
NoOutput == [kind |-> "none"]

\* no request is being handled
Idle ==
    /\ spc = "idle"
    /\ file = NoFile
    /\ tempExists = FALSE
    /\ SyncLocalsInit
    /\ pc = [r \in Slots |-> "idle"]
    /\ req = [r \in Slots |-> NoRequest]
    /\ searchResults = [r \in Slots |-> <<>>]
    /\ usedModel = [r \in Slots |-> -1]
    /\ resp = [r \in Slots |-> NoResponse]
    /\ calls = [r \in Slots |-> <<>>]

\* the controller as constructed (app.controller.ts:30-37)
Init ==
    /\ isInitialized = FALSE
    /\ model = -1
    /\ Idle
    /\ fin = NoInput /\ fout = NoOutput

Quiet == spc = "idle" /\ \A r \in Slots : pc[r] = "idle"

SyncStep ==
    \/ WriteOk
    \/ \E m \in ErrMsgs, left \in BOOLEAN : WriteFail(m, left)
    \/ \E n \in 0..MaxDocs : LoadOk(n)
    \/ \E m \in ErrMsgs : LoadFail(m)
    \/ ProbeOk
    \/ \E m \in ErrMsgs : ProbeFail(m)
    \/ UpsertOk
    \/ \E m \in ErrMsgs : UpsertFail(m)
    \/ PauseEnd
    \/ UnlinkOk
    \/ UnlinkFail
    \/ SyncClose

\* the steps of a request after its start, for answers of at most `most`
\* results and the failure messages `msgs`
RequestStep(r, most, msgs) ==
    \/ ChatEmbedOk(r)
    \/ \E scores \in Answers(LimitOf(req[r]), most) : ChatSearchOk(r, scores)
    \/ ChatModelOk(r)
    \/ \E m \in msgs : ChatFail(r, m)
    \/ SummarizeEmbedOk(r)
    \/ \E scores \in Answers(transactionLimit, most) :
           SummarizeSearchOk(r, scores)
    \/ \E raw \in ModelOutputs : SummarizeModelOk(r, raw)
    \/ \E m \in msgs : SummarizeFail(r, m)
    \/ Close(r)

RequestStart(r, requests) ==
    \/ \E rq \in requests : ChatRefuse(r, rq)
    \/ \E rq \in requests : ChatAccept(r, rq)
    \/ SummarizeRefuse(r)
    \/ SummarizeAccept(r)

\* the three endpoints, one request at a time
Next ==
    \/ OnModuleInit
    \/ Quiet /\ \E f \in Files : SyncRefuse(f)
    \/ Quiet /\ \E f \in Files : SyncAccept(f)
    \/ SyncStep
    \/ Quiet /\ \E r \in Slots : RequestStart(r, ChatRequests)
    \/ \E r \in Slots : RequestStep(r, MaxResults, ErrMsgs)

Spec == Init /\ [][Next]_vars

\* the /chat requests of the concurrent runs: a query, the default limit
ConcurrentRequests ==
    {rq \in ChatRequests : ~Blank(rq.query) /\ ~rq.limit.defined}

\* /chat and /summarize requests running concurrently
NextConcurrent ==
    \/ OnModuleInit
    \/ \E r \in Slots : RequestStart(r, ConcurrentRequests)
    \/ \E r \in Slots : RequestStep(r, 1, {"quota exceeded"})

SpecConcurrent == Init /\ [][NextConcurrent]_vars

\* enhancedJsonParser on every model output of at most MaxLen tokens
InitJson ==
    /\ isInitialized = TRUE /\ model = initialTemperature
    /\ Idle
    /\ fin \in [fn : {"enhancedJsonParser"}, arg : SeqsUpTo(Tokens, MaxLen)]
    /\ fout = NoOutput

SpecJson == InitJson /\ [][ParseOutput]_vars

\* getSystemPrompt on every query of at most MaxWords words
InitPrompt ==
    /\ isInitialized = TRUE /\ model = initialTemperature
    /\ Idle
    /\ fin \in [fn : {"getSystemPrompt"}, arg : Queries(MaxWords)]
    /\ fout = NoOutput

SpecPrompt == InitPrompt /\ [][ChoosePrompt]_vars

----------------------------------------------------------------------------
(* Properties of POST /sync *)

RECURSIVE SumProcessed(_)
SumProcessed(rs) ==
    IF rs = <<>> THEN 0 ELSE Head(rs).documentsProcessed + SumProcessed(Tail(rs))

\* the documents of the batches whose upsert failed
RECURSIVE SumFailed(_)
SumFailed(rs) ==
    IF rs = <<>> THEN 0
    ELSE (IF Head(rs).status = "error" THEN Head(rs).documentsInBatch ELSE 0)
         + SumFailed(Tail(rs))

Returned == spc = "done" /\ sresp.kind = "result"

\* C1, as claimed: whenever /sync returns a result, processedDocuments and
\* the sum of documentsProcessed over the batch results equal totalDocuments,
\* whatever the batch upserts did.
C1_ProcessedEqualsTotal ==
    Returned =>
        /\ sresp.processedDocuments = sresp.totalDocuments
        /\ SumProcessed(sresp.results) = sresp.totalDocuments

\* C1, amended: whenever /sync returns a result, processedDocuments is the
\* sum of documentsProcessed over the batch results, which is totalDocuments
\* (the rows parsed) less the documents of the batches whose upsert failed;
\* it equals totalDocuments exactly when no batch failed.
C1_ProcessedIsTotalLessFailed ==
    Returned =>
        /\ sresp.totalDocuments = docs
        /\ sresp.processedDocuments = SumProcessed(sresp.results)
        /\ sresp.processedDocuments
               = sresp.totalDocuments - SumFailed(sresp.results)
        /\ (sresp.processedDocuments = sresp.totalDocuments)
               <=> (\A k \in 1..Len(sresp.results) :
                        sresp.results[k].status = "success")

\* a result with a failed batch between two that succeeded
C1_Witness ==
    /\ Returned
    /\ Len(sresp.results) = 3
    /\ sresp.results[2].status = "error"
    /\ sresp.results[1].status = "success"
    /\ sresp.results[3].status = "success"
    /\ sresp.processedDocuments = sresp.totalDocuments - batchSize

\* String.prototype.endsWith('.csv'), spelled out
CsvName(name) ==
    /\ Len(name) >= 4
    /\ name[Len(name) - 3] = "." /\ name[Len(name) - 2] = "c"
    /\ name[Len(name) - 1] = "s" /\ name[Len(name)] = "v"

Handling == spc # "idle"

NoExternalCall == slog = <<>> /\ ~tempFilePath /\ ~tempExists

\* C4, as claimed: a request without a file, or with a file whose content
\* type is not text/csv, ends in a bad-request error with no external call
\* made; no file of another content type gets past the check.
C4_NonCsvTypeRejected ==
    (Handling /\ (~file.present \/ file.mimetype # "text/csv")) =>
        /\ spc = "done"
        /\ sresp.status = 400
        /\ NoExternalCall

\* C4, amended: a request without a file, or with a file that has neither
\* the content type text/csv nor a name ending in .csv, ends in a
\* bad-request error before any file write, embedding call or upsert; a
\* request that ends in this rejection made no external call; a file with
\* another content type whose name ends in .csv passes the check.
C4_NonCsvRejectedBeforeCalls ==
    /\ (Handling /\ (~file.present
                     \/ (file.mimetype # "text/csv"
                         /\ ~CsvName(file.originalname)))) =>
           /\ spc = "done"
           /\ sresp.status = 400
           /\ sresp.kind = "error"
           /\ sresp.message \in {<<"No CSV file provided">>,
                                 <<"File must be a CSV">>}
           /\ NoExternalCall
    /\ (spc = "done" /\ sresp.message \in {<<"No CSV file provided">>,
                                            <<"File must be a CSV">>}) =>
           NoExternalCall
    /\ (Handling /\ file.present
        /\ (file.mimetype = "text/csv" \/ CsvName(file.originalname))) =>
           \/ slog # <<>> /\ slog[1].op = "writeFile"
           \/ /\ spc = "done" /\ sresp.status = 500 /\ slog = <<>>
              /\ sresp.message = <<"AI components not initialized yet">>

\* a PDF is refused by an initialized controller
C4_Witness ==
    /\ spc = "done"
    /\ isInitialized
    /\ file.present
    /\ file.mimetype = "application/pdf"
    /\ ~CsvName(file.originalname)
    /\ sresp.status = 400
    /\ slog = <<>>

\* the entries of the log with operation `op`
Entries(log, op) == SelectSeq(log, LAMBDA e : e.op = op)

Settled(e) == e.op \in {"addDocuments:ok", "addDocuments:error"}

\* C5: a failed upsert does not stop the loop.  The upserts called so far
\* are those of batches 1, 2, ... in this order, one call each; results
\* holds one entry per settled batch, entry k for batch k; a failed batch has
\* status error, documentsProcessed 0 and the message the upsert failed
\* with; once the loop is entered the request ends with a result that holds
\* an entry for every one of the totalBatches batches.
C5_FailedBatchDoesNotStopLoop ==
    LET upserts == Entries(slog, "addDocuments")
        m == Len(upserts)
    IN  Handling =>
        /\ \A k \in 1..m : upserts[k].batch = k
        /\ m <= totalBatches
        /\ Len(results) = (IF spc = "upsert" THEN m - 1 ELSE m)
        /\ \A k \in 1..Len(results) :
               /\ results[k].batchNumber = k
               /\ results[k].status \in {"success", "error"}
               /\ results[k].status = "success" =>
                      results[k].documentsProcessed = results[k].documentsInBatch
               /\ results[k].status = "error" =>
                      /\ results[k].documentsProcessed = 0
                      /\ \E q \in 1..Len(slog) :
                             /\ slog[q].op = "addDocuments:error"
                             /\ slog[q].batch = k
                             /\ slog[q].note = results[k].error
        /\ (spc = "done" /\ m > 0) =>
               /\ sresp.kind = "result"
               /\ sresp.status = 201
               /\ m = totalBatches
               /\ sresp.results = results
               /\ Len(sresp.results) = sresp.totalBatches

\* the first of three batches failed and the other two were still upserted
C5_Witness ==
    /\ Returned
    /\ Len(sresp.results) = 3
    /\ sresp.results[1].status = "error"
    /\ sresp.results[1].documentsProcessed = 0
    /\ sresp.results[2].status = "success"
    /\ sresp.results[3].status = "error"
    /\ sresp.summary.failed = 2

\* C6, as claimed: when a request that made a temporary file completes, the
\* file is gone, on every path.
C6_TempFileGone == (spc = "done" /\ tempFilePath) => ~tempExists

\* C6, amended: a request that made a temporary path calls unlink on it
\* exactly once, after the try block ended (with a result, or with a failure
\* of the write, the load or the probe) and before the response; when the
\* request completes the file is gone unless that unlink itself failed, and
\* then the failure is dropped and the file stays.
C6_UnlinkCalledOnceOnEveryPath ==
    LET n == Len(slog)
    IN  /\ (Handling /\ spc \notin {"unlink", "done"}) =>
               Len(Entries(slog, "unlink")) = 0
        /\ (spc = "done" /\ tempFilePath) =>
               /\ Len(Entries(slog, "unlink")) = 1
               /\ n >= 2
               /\ slog[n - 1].op = "unlink"
               /\ slog[n].op \in {"unlink:ok", "unlink:error"}
               /\ slog[n].op = "unlink:ok" => ~tempExists
               /\ tempExists => slog[n].op = "unlink:error"
               /\ sresp = outcome
        /\ (spc = "done" /\ ~tempFilePath) =>
               ~tempExists /\ Len(Entries(slog, "writeFile")) = 0

\* the load failed after the file was written, and the file was removed
C6_Witness ==
    /\ spc = "done"
    /\ tempFilePath
    /\ sresp.status = 400
    /\ Len(Entries(slog, "writeFile:ok")) = 1
    /\ Len(Entries(slog, "load:error")) = 1
    /\ slog[Len(slog)].op = "unlink:ok"
    /\ ~tempExists

\* the upserts called and not yet settled after the first p log entries
Unsettled(log, p) ==
    Cardinality({q \in 1..p : log[q].op = "addDocuments"})
        - Cardinality({q \in 1..p : Settled(log[q])})

Pause(b) == [op |-> "setTimeout", batch |-> b, ms |-> 2000, note |-> ""]
PauseOver(b) ==
    [op |-> "setTimeout:fired", batch |-> b, ms |-> 2000, note |-> ""]

\* C10: the upserts of one request never overlap.  At most one upsert is
\* unsettled at any time; the upsert of batch b + 1 is called right after
\* the 2000 ms timer set on the settling of batch b has fired; a timer is set
\* after every settled batch but the last, failed or not; a request of N
\* batches that returns has set N - 1 timers (none when N <= 1).
C10_UpsertsSequentialWithPauses ==
    LET n == Len(slog)
    IN  Handling =>
        /\ \A p \in 1..n :
               Unsettled(slog, p) \in {0, 1}
        /\ \A p \in 1..n : slog[p].op = "addDocuments" =>
               IF slog[p].batch = 1
               THEN p > 1 /\ slog[p - 1].op = "embedQuery:ok"
               ELSE /\ p > 3
                    /\ slog[p - 1] = PauseOver(slog[p].batch - 1)
                    /\ slog[p - 2] = Pause(slog[p].batch - 1)
                    /\ Settled(slog[p - 3])
                    /\ slog[p - 3].batch = slog[p].batch - 1
        /\ \A p \in 1..n : Settled(slog[p]) =>
               IF slog[p].batch < totalBatches
               THEN p < n /\ slog[p + 1] = Pause(slog[p].batch)
               ELSE p < n /\ slog[p + 1].op = "unlink"
        /\ Returned =>
               /\ Len(Entries(slog, "setTimeout"))
                      = (IF totalBatches <= 1 THEN 0 ELSE totalBatches - 1)
               /\ Len(Entries(slog, "setTimeout:fired"))
                      = Len(Entries(slog, "setTimeout"))

\* three batches, the first of which failed, with two pauses
C10_Witness ==
    /\ Returned
    /\ totalBatches = 3
    /\ results[1].status = "error"
    /\ Len(Entries(slog, "setTimeout:fired")) = 2
    /\ Len(Entries(slog, "addDocuments")) = 3

----------------------------------------------------------------------------
(* Properties of POST /chat and GET /summarize *)

AllAtLeast(scores, t) == \A k \in 1..Len(scores) : scores[k] >= t

\* C2: every match performSimilaritySearch returns has a score of at least
\* 0.5 and every match getTransactionData returns one of at least 0.6,
\* whatever the vector store answered; so have the topScores of a /chat
\* reply and the matches handed to the chat model and the analysis model.
C2_MatchesAboveThreshold ==
    \A r \in Slots :
        LET t == IF req[r].endpoint = "chat" THEN 50 ELSE 60
        IN  req[r].endpoint \in {"chat", "summarize"} =>
                /\ AllAtLeast(searchResults[r], t)
                /\ AllAtLeast(resp[r].topScores, t)
                /\ resp[r].kind = "reply" =>
                       resp[r].topScores = searchResults[r]
                /\ \A p \in 1..Len(calls[r]) : calls[r][p].op = "model" =>
                       /\ AllAtLeast(calls[r][p].scores, t)
                       /\ calls[r][p].scores = searchResults[r]

\* the store answers 0.49 and 0.50 to a /chat search: the reply holds 0.50
C2_Witness ==
    \E r \in Slots :
        /\ req[r].endpoint = "chat"
        /\ resp[r].kind = "reply"
        /\ Len(calls[r]) = 4
        /\ calls[r][3].op = "similaritySearch:ok"
        /\ calls[r][3].scores = <<49, 50>>
        /\ resp[r].topScores = <<50>>

LastCall(r) == calls[r][Len(calls[r])]

\* C7, as claimed: a request of /sync, /chat or /summarize in which the
\* embedding, the search, the model call, the file write or the load failed
\* ends with HTTP 400 and the message of the error, never with a success
\* status.
C7_ErrorsAre400 ==
    /\ spc = "done" =>
           \A q \in 1..Len(slog) :
               slog[q].op \in {"writeFile:error", "load:error",
                               "embedQuery:error"} =>
                   /\ sresp.status = 400
                   /\ sresp.message[Len(sresp.message)] = slog[q].note
    /\ \A r \in Slots :
           (pc[r] = "done" /\ calls[r] # <<>> /\ LastCall(r).op = "error") =>
               /\ resp[r].status = 400
               /\ resp[r].message[Len(resp[r].message)] = LastCall(r).note

\* C7, amended.  /chat: every error (not initialized, empty query, failed
\* embedding, search or model call) ends the request with HTTP 400 and the
\* message of the error.  /sync: a missing or non-CSV file ends it with HTTP
\* 400; a failed write, load or embedding probe with HTTP 400 and the
\* message of the error; a failed batch upsert is recorded and the request
\* returns its result; a controller not initialized throws outside the try
\* block (HTTP 500).  /summarize: a controller not initialized throws outside
\* the try block (HTTP 500); a failed embedding, search or model call ends
\* the request with a success status and a body that holds the message.
C7_ErrorResponses ==
    /\ spc = "done" =>
           LET broken == {q \in 1..Len(slog) :
                              slog[q].op \in {"writeFile:error", "load:error",
                                              "embedQuery:error"}}
           IN  IF slog = <<>>
               THEN /\ sresp.kind = "error"
                    /\ \/ /\ sresp.status = 400
                          /\ sresp.message \in {<<"No CSV file provided">>,
                                                <<"File must be a CSV">>}
                       \/ /\ sresp.status = 500
                          /\ sresp.message
                                 = <<"AI components not initialized yet">>
                          /\ file.present
               ELSE IF broken # {}
               THEN /\ Cardinality(broken) = 1
                    /\ sresp.status = 400
                    /\ sresp.kind = "error"
                    /\ \A q \in broken :
                           sresp.message
                               = <<"Failed to process CSV: ", slog[q].note>>
               ELSE /\ sresp.status = 201
                    /\ sresp.kind = "result"
                    /\ sresp.summary.failed
                           = Len(Entries(slog, "addDocuments:error"))
    /\ \A r \in Slots : (pc[r] = "done" /\ req[r].endpoint = "chat") =>
           IF calls[r] = <<>>
           THEN /\ resp[r].status = 400
                /\ resp[r].message
                       \in {<<"Chat processing failed: ",
                              "AI components not initialized yet">>,
                            <<"Chat processing failed: ", "Query is required">>}
           ELSE IF LastCall(r).op = "error"
           THEN /\ resp[r].status = 400
                /\ resp[r].message
                       = <<"Chat processing failed: ", LastCall(r).note>>
           ELSE resp[r].status = 201 /\ resp[r].kind \in {"reply", "noresults"}
    /\ \A r \in Slots : (pc[r] = "done" /\ req[r].endpoint = "summarize") =>
           IF calls[r] = <<>>
           THEN /\ resp[r].status = 500
                /\ resp[r].message = <<"AI components not initialized yet">>
           ELSE IF LastCall(r).op = "error"
           THEN /\ resp[r].status = 200
                /\ resp[r].kind = "failure"
                /\ resp[r].message
                       = <<"Failed to generate financial summary",
                           LastCall(r).note>>
           ELSE resp[r].status = 200 /\ resp[r].kind \in {"empty", "summary"}

\* the chat model fails in a /chat request: HTTP 400 with its message
C7_Witness ==
    \E r \in Slots :
        /\ pc[r] = "done"
        /\ req[r].endpoint = "chat"
        /\ Len(calls[r]) = 5
        /\ calls[r][4].op = "model"
        /\ calls[r][5].op = "error"
        /\ calls[r][5].note = "dimension mismatch"
        /\ resp[r].status = 400
        /\ resp[r].message = <<"Chat processing failed: ", "dimension mismatch">>

\* C8: the temperature of the client that answers a request is the
\* request's own (clamped to 0..2), else the initial 0.6, whatever
\* temperature earlier or concurrent /chat requests gave.
C8_TemperatureIsOwn ==
    \A r \in Slots : \A p \in 1..Len(calls[r]) :
        calls[r][p].op = "model" =>
            calls[r][p].temperature
                = (IF req[r].temperature.defined
                   THEN Max(0, Min(20, req[r].temperature.value))
                   ELSE 6)

----------------------------------------------------------------------------
(* Properties of enhancedJsonParser *)

ParserRan == fin.fn = "enhancedJsonParser" /\ fout.kind # "none"

IsFallback(v) == v.kind = "fallback" /\ v.processingError = TRUE

\* the model output as it stands is a JSON object
IsJsonObject(raw) == JsonParse(raw) = "object"

\* C3, as claimed: whenever the model output is not a JSON document holding
\* an object (text around an object, another JSON value, empty content),
\* the analysis is the fallback object with processingError true.
C3_NonJsonGivesFallback ==
    (ParserRan /\ ~IsJsonObject(fin.arg)) => IsFallback(fout)

Has(raw, c) == \E p \in 1..Len(raw) : raw[p] = c

\* text without braces, then an empty object, then text without braces
AroundObject(raw) ==
    \E a, b \in 1..Len(raw) :
        /\ a < b
        /\ raw[a] = "{" /\ raw[b] = "}"
        /\ \A p \in 1..Len(raw) :
               /\ p < a => raw[p] \notin {"{", "}", "F"}
               /\ (a < p /\ p < b) => raw[p] = " "
               /\ p > b => raw[p] \notin {"{", "}", "F"}

\* C3, amended: the analysis is the fallback object (processingError true)
\* exactly when the output, trimmed, without its code fences and cut to the
\* span from the first opening brace to the last closing brace, is no JSON
\* text or is a JSON primitive; this is so for empty content and for every
\* output without a brace or bracket.  Text around a JSON object is cut
\* away and the object is returned; a JSON array without braces is returned
\* as parsed.  The parser always returns a value: it never fails the request.
C3_FallbackUnlessObjectOrArrayFound ==
    ParserRan =>
        /\ fout.kind \in {"fallback", "object", "array"}
        /\ fout.processingError = (fout.kind = "fallback")
        /\ fin.arg = <<>> => IsFallback(fout)
        /\ (~Has(fin.arg, "{") /\ ~Has(fin.arg, "[")) => IsFallback(fout)
        /\ AroundObject(fin.arg) => fout.kind = "object"
        /\ (JsonParse(fin.arg) = "array" /\ ~Has(fin.arg, "{")
            /\ ~Has(fin.arg, "}")) => fout.kind = "array"
        /\ IsFallback(fout)
               <=> JsonParse(ExtractObject(StripFences(Trim(ContentOf(fin.arg)))))
                       \in {"error", "number"}
        /\ IsFallback(fout) => fout.rawResponse = ContentOf(fin.arg)

\* an object with text inside its braces is malformed: the fallback
C3_Witness ==
    /\ ParserRan
    /\ fin.arg = <<"{", "j", "}">>
    /\ IsFallback(fout)

----------------------------------------------------------------------------
(* Properties of getSystemPrompt *)

PromptChosen == fin.fn = "getSystemPrompt" /\ fout.kind # "none"

\* the word occurs in the query at position p, letter case ignored
OccursAt(query, w, p) ==
    /\ p + Len(w) - 1 <= Len(query)
    /\ \A k \in 1..Len(w) : LowerOf(query[p + k - 1]) = w[k]

Mentions(query, ws) ==
    \E w \in ws : \E p \in 1..Len(query) : OccursAt(query, w, p)

Group1 ==
    {<<"m", "a", "x", "i", "m", "u", "m">>, <<"h", "i", "g", "h", "e", "s", "t">>,
     <<"l", "a", "r", "g", "e", "s", "t">>}
Group2 ==
    {<<"m", "i", "n", "i", "m", "u", "m">>, <<"l", "o", "w", "e", "s", "t">>,
     <<"s", "m", "a", "l", "l", "e", "s", "t">>}
Group3 ==
    {<<"s", "u", "m", "m", "a", "r", "y">>, <<"o", "v", "e", "r", "v", "i", "e", "w">>}
Group4 == {<<"p", "a", "t", "t", "e", "r", "n">>, <<"t", "r", "e", "n", "d">>}

\* C9: getSystemPrompt returns one of five templates, that of the first
\* group of keywords, in the order maximum/highest/largest,
\* minimum/lowest/smallest, summary/overview, pattern/trend, of which the
\* query holds a word in any letter case, and the default one when it holds
\* none.
C9_FirstMatchingTemplate ==
    PromptChosen =>
        LET q == fin.arg
        IN  /\ fout.kind \in {"maximum", "minimum", "summary", "pattern",
                              "default"}
            /\ fout.kind = "maximum" <=> Mentions(q, Group1)
            /\ fout.kind = "minimum" <=>
                   (~Mentions(q, Group1) /\ Mentions(q, Group2))
            /\ fout.kind = "summary" <=>
                   (~Mentions(q, Group1) /\ ~Mentions(q, Group2)
                    /\ Mentions(q, Group3))
            /\ fout.kind = "pattern" <=>
                   (~Mentions(q, Group1) /\ ~Mentions(q, Group2)
                    /\ ~Mentions(q, Group3) /\ Mentions(q, Group4))
            /\ fout.kind = "default" <=>
                   (~Mentions(q, Group1) /\ ~Mentions(q, Group2)
                    /\ ~Mentions(q, Group3) /\ ~Mentions(q, Group4))

\* a query with a word of the second group before one of the first, in
\* capitals, gets the template of the first group
C9_Witness ==
    /\ PromptChosen
    /\ fin.arg = <<"m", "i", "n", "i", "m", "u", "m">>
                     \o <<"L", "A", "R", "G", "E", "S", "T">>
    /\ fout.kind = "maximum"
----------------------------------------------------------------------------
(* The calls of one POST /chat request *)

\* the calls a request has made so far, in the order it made them
CallsMade(r) ==
    LET made == SelectSeq(calls[r], LAMBDA e :
                    e.op \in {"embedQuery", "similaritySearch", "model"})
    IN  [p \in 1..Len(made) |-> made[p].op]

ChatOrder == <<"embedQuery", "similaritySearch", "model">>

\* the query is missing or holds nothing but white space
NothingAsked(q) == ~q.defined \/ \A p \in 1..Len(q.text) : q.text[p] = " "

\* the answers of the vector store the request has received
SearchAnswers(r) == Entries(calls[r], "similaritySearch:ok")

SomePasses(scores) ==
    \E p \in 1..Len(scores) : scores[p] >= relevanceThreshold

ChatHandled(r) == req[r].endpoint = "chat" /\ pc[r] # "idle"

\* C11: a /chat request calls embedQuery, the vector search and the chat
\* model at most once each, in that order; once the search has answered, the
\* model has been invoked exactly once if some score is at least 0.5, and
\* otherwise the request ends with the no-results reply (resultsFound 0)
\* without a model call; a request whose query is missing or blank is
\* refused with no call at all; a reply with matches comes after exactly one
\* model call.
C11_ChatCallsOnceInOrder ==
    \A r \in Slots :
        ChatHandled(r) =>
            /\ Len(CallsMade(r)) <= 3
            /\ CallsMade(r) = SubSeq(ChatOrder, 1, Len(CallsMade(r)))
            /\ Len(SearchAnswers(r)) <= 1
            /\ \A p \in 1..Len(SearchAnswers(r)) :
                   IF SomePasses(SearchAnswers(r)[p].scores)
                   THEN CallsMade(r) = ChatOrder
                   ELSE /\ Len(CallsMade(r)) = 2
                        /\ pc[r] = "done"
                        /\ resp[r].kind = "noresults"
                        /\ resp[r].resultsFound = 0
            /\ NothingAsked(req[r].query) =>
                   /\ calls[r] = <<>>
                   /\ pc[r] = "done"
                   /\ resp[r].status = 400
            /\ resp[r].kind = "reply" =>
                   /\ CallsMade(r) = ChatOrder
                   /\ resp[r].resultsFound >= 1
            /\ Len(CallsMade(r)) = 3 => Len(SearchAnswers(r)) = 1

\* a request answered after one embedding, one search of two scores of
\* which one passes, and one model call
C11_Witness ==
    \E r \in Slots :
        /\ ChatHandled(r) /\ pc[r] = "done"
        /\ resp[r].kind = "reply" /\ resp[r].resultsFound = 1
        /\ CallsMade(r) = ChatOrder
        /\ Len(SearchAnswers(r)) = 1
        /\ Len(SearchAnswers(r)[1].scores) = 2
----------------------------------------------------------------------------
(* The batches of one POST /sync request *)

RECURSIVE SumInBatch(_)
SumInBatch(rs) ==
    IF rs = <<>> THEN 0 ELSE Head(rs).documentsInBatch + SumInBatch(Tail(rs))

\* the indices startIndex..endIndex of a batch result
Covered(e) == e.startIndex .. e.endIndex

\* tb is the least number of batches of batchSize that hold n documents
IsCeiling(tb, n) ==
    /\ tb >= 0
    /\ tb * batchSize >= n
    /\ tb > 0 => (tb - 1) * batchSize < n

\* C12: the batches of /sync partition the document indices 0..n-1:
\* totalBatches is ceil(n/50); batch i covers startIndex..endIndex with
\* startIndex = 50*(i-1); consecutive batches are adjacent; every batch holds
\* 1..50 documents and all but the last hold 50; at the return there is one
\* batch per round, the documentsInBatch sum to n, the ranges cover exactly
\* 0..n-1 without overlap and successful + failed = totalBatches; with n = 0
\* there is no batch, no embedding probe and no upsert.
C12_BatchesPartitionDocuments ==
    /\ IsCeiling(totalBatches, docs)
    /\ Len(results) <= totalBatches
    /\ \A k \in 1..Len(results) :
           /\ results[k].batchNumber = k
           /\ results[k].startIndex = batchSize * (k - 1)
           /\ results[k].documentsInBatch = Cardinality(Covered(results[k]))
           /\ results[k].documentsInBatch \in 1..batchSize
           /\ Covered(results[k]) \subseteq 0..(docs - 1)
           /\ k < totalBatches => results[k].documentsInBatch = batchSize
           /\ k > 1 => results[k].startIndex = results[k - 1].endIndex + 1
    /\ Returned =>
           LET rs == sresp.results
               n == sresp.totalDocuments
           IN  /\ n = docs /\ rs = results
               /\ sresp.totalBatches = Len(rs)
               /\ IsCeiling(sresp.totalBatches, n)
               /\ SumInBatch(rs) = n
               /\ UNION {Covered(rs[k]) : k \in 1..Len(rs)} = 0..(n - 1)
               /\ \A k, l \in 1..Len(rs) :
                      k # l => Covered(rs[k]) \cap Covered(rs[l]) = {}
               /\ sresp.summary.successful + sresp.summary.failed
                      = sresp.totalBatches
               /\ n = 0 =>
                      /\ rs = <<>>
                      /\ Entries(slog, "embedQuery") = <<>>
                      /\ Entries(slog, "addDocuments") = <<>>

\* a result of three batches, the last one short, the second one failed
C12_Witness ==
    /\ Returned
    /\ sresp.totalDocuments = 2 * batchSize + 1
    /\ Len(sresp.results) = 3
    /\ sresp.results[3].startIndex = sresp.results[3].endIndex
    /\ sresp.results[2].status = "error"
    /\ sresp.results[2].documentsInBatch = batchSize
====
